---- MODULE Spec2Model ----
(***************************************************************************)
(* A model of phi.assistant.assistant.Assistant: the reconciliation of    *)
(* the live assistant with its persisted AssistantRun, run creation, the   *)
(* task pipeline (_run / run), the raw chat passthrough and name           *)
(* generation.                                                             *)
(*                                                                         *)
(* Encoding.  Python's None is the string "None" for optional strings, a   *)
(* record with isNone = TRUE for optional dictionaries, and a record with  *)
(* exists = FALSE for an optional AssistantRun.  A text is a sequence of   *)
(* tokens: "f" is a fence (three backticks), "j" the word json, "n" a      *)
(* newline, "V" a JSON document that validates against the output schema,  *)
(* "E" the JSON document {}, "w" and "u" words that are not JSON, "q" a    *)
(* double quote and "s" a space.  An optional text that is None is the     *)
(* one-token text NoneText.                                                *)
(*                                                                         *)
(* a is the assistant the caller is working with, gen the generator the    *)
(* caller holds, last the record of the caller's last call and prev a      *)
(* summary of the call before it.  other is a second assistant instance    *)
(* (with its generator and call record) that the caller is not working     *)
(* with at the moment; it is absent in all but the two-instance            *)
(* specification.                                                          *)
(***************************************************************************)
EXTENDS Integers, Sequences, FiniteSets, TLC

VARIABLES a, store, gen, last, prev, other

vars == <<a, store, gen, last, prev, other>>

(***************************************************************************)
(* Bounds                                                                  *)
(***************************************************************************)
MaxVal == 2        \* metadata values are 1..MaxVal
MaxHist == 2       \* longest chat history / raw message history explored
MaxFence == 3      \* longest run of fence tokens before the body of a drawn text
MaxTasks == 2      \* longest task list drawn in the pipeline specification
MaxDeltas == 1     \* most response deltas a streamed model call produces

(***************************************************************************)
(* Metadata dictionaries: Dict[str, Any] over two keys; 0 = key absent.    *)
(***************************************************************************)
Keys == {"x", "y"}

Dict == [Keys -> 0..MaxVal]

EmptyDict == [k \in Keys |-> 0]

NoneDict == [isNone |-> TRUE, d |-> EmptyDict]

SomeDict(d) == [isNone |-> FALSE, d |-> d]

OptDict == {NoneDict} \cup {SomeDict(d) : d \in Dict}

DictKeys(d) == {k \in Keys : d[k] # 0}

\* merge_dictionaries(a, b): a is updated in place with b; b wins on conflict.
merge_dictionaries(da, db) == [k \in Keys |-> IF db[k] # 0 THEN db[k] ELSE da[k]]

(***************************************************************************)
(* Messages and memory                                                     *)
(***************************************************************************)
Msg(role, content) == [role |-> role, content |-> content]

IntroMsg == Msg("assistant", "intro")

UserMsg == Msg("user", "q")

SystemMsg == Msg("system", "sys")

ResponseMsg == Msg("assistant", "ans")

EmptyMemory == [chat_history |-> <<>>, llm_messages |-> <<>>]

\* AssistantMemory.add_chat_message
add_chat_message(mem, m) == [mem EXCEPT !.chat_history = Append(@, m)]

\* AssistantMemory.add_llm_messages
add_llm_messages(mem, ms) == [mem EXCEPT !.llm_messages = @ \o ms]

(***************************************************************************)
(* AssistantRun rows                                                       *)
(***************************************************************************)
NoneText == <<"None">>

NoLLM == [isNone |-> TRUE, hasMetrics |-> FALSE, metrics |-> 0]

NoRow ==
    [exists |-> FALSE, name |-> NoneText, run_id |-> "None", run_name |-> NoneText,
     user_id |-> "None", llm |-> NoLLM,
     memory |-> [isNone |-> TRUE, valid |-> TRUE, mem |-> EmptyMemory],
     assistant_data |-> NoneDict, run_data |-> NoneDict,
     user_data |-> NoneDict, task_data |-> NoneDict]

\* Assistant.to_database_row
to_database_row(s) ==
    [exists |-> TRUE, name |-> s.name, run_id |-> s.run_id, run_name |-> s.run_name,
     user_id |-> s.user_id,
     llm |-> IF s.llm.isNone THEN NoLLM
             ELSE [isNone |-> FALSE, hasMetrics |-> TRUE, metrics |-> s.llm.metrics],
     memory |-> [isNone |-> FALSE, valid |-> TRUE, mem |-> s.memory],
     assistant_data |-> s.assistant_data, run_data |-> s.run_data,
     user_data |-> s.user_data, task_data |-> s.task_data]

\* The metadata block with the arguments of merge_dictionaries exchanged.
RowDataAfterSwapped(live, persisted) ==
    IF ~persisted.isNone /\ ~live.isNone
    THEN SomeDict(merge_dictionaries(live.d, persisted.d))
    ELSE persisted

\* One metadata block of from_database_row: the value the row's dictionary
\* holds after the block (merge_dictionaries updates it in place).
RowDataAfter(live, persisted) ==
    IF ~persisted.isNone /\ ~live.isNone
    THEN SomeDict(merge_dictionaries(persisted.d, live.d))
    ELSE persisted

\* One metadata block of from_database_row: the assistant's dictionary after it.
MergeData(live, persisted) ==
    IF persisted.isNone THEN live
    ELSE IF ~live.isNone THEN RowDataAfter(live, persisted)
    ELSE persisted

\* Assistant.from_database_row: the assistant after loading the row.
from_database_row(s, row) ==
    [s EXCEPT
        !.name = IF @ = NoneText /\ row.name # NoneText THEN row.name ELSE @,
        !.run_id = IF @ = "None" /\ row.run_id # "None" THEN row.run_id ELSE @,
        !.run_name = IF @ = NoneText /\ row.run_name # NoneText THEN row.run_name ELSE @,
        !.user_id = IF @ = "None" /\ row.user_id # "None" THEN row.user_id ELSE @,
        !.llm = IF ~row.llm.isNone /\ row.llm.hasMetrics /\ ~@.isNone
                THEN [@ EXCEPT !.metrics = row.llm.metrics] ELSE @,
        !.memory = IF ~row.memory.isNone /\ row.memory.valid THEN row.memory.mem ELSE @,
        !.assistant_data = MergeData(@, row.assistant_data),
        !.run_data = MergeData(@, row.run_data),
        !.user_data = MergeData(@, row.user_data),
        !.task_data = MergeData(@, row.task_data)]

\* Assistant.from_database_row: the row object after the call (its metadata
\* dictionaries are the targets of merge_dictionaries).
RowAfterLoad(s, row) ==
    [row EXCEPT
        !.assistant_data = RowDataAfter(s.assistant_data, @),
        !.run_data = RowDataAfter(s.run_data, @),
        !.user_data = RowDataAfter(s.user_data, @),
        !.task_data = RowDataAfter(s.task_data, @)]

(***************************************************************************)
(* Storage adapter: read(run_id) and upsert(row) over one table.           *)
(***************************************************************************)
RunIds == {"r1"}

StorageRead(st, run_id) == IF run_id \in RunIds THEN st[run_id] ELSE NoRow

\* upsert with a healthy adapter stores the row and returns it; a failing
\* adapter stores nothing and returns None.
StorageUpsert(st, row, ok) ==
    IF ok /\ row.run_id \in RunIds
    THEN [st |-> [st EXCEPT ![row.run_id] = row], row |-> row]
    ELSE [st |-> st, row |-> NoRow]

(***************************************************************************)
(* An effect is the outcome of a method: the assistant and the storage     *)
(* after it, what it returned or raised, and what it touched on the way.   *)
(***************************************************************************)
Effect(s, st) ==
    [a |-> s, store |-> st, raised |-> FALSE, retRow |-> NoRow, retId |-> "None",
     reads |-> 0, upserts |-> 0, events |-> 0, calls |-> 0]

\* Assistant.read_from_storage
read_from_storage(s, st) ==
    IF s.storage /\ s.run_id # "None"
    THEN LET row == StorageRead(st, s.run_id)
             s1 == [s EXCEPT !.db_row = row]
         IN  IF s.user_id # "None" /\ row.exists /\ row.user_id # s.user_id
             THEN [Effect(s1, st) EXCEPT !.reads = 1]
             ELSE IF row.exists
             THEN LET s2 == [from_database_row(s1, row) EXCEPT !.db_row = RowAfterLoad(s1, row)]
                  IN  [Effect(s2, st) EXCEPT !.reads = 1, !.retRow = s2.db_row]
             ELSE [Effect(s1, st) EXCEPT !.reads = 1, !.retRow = s1.db_row]
    ELSE [Effect(s, st) EXCEPT !.retRow = s.db_row]

\* write_to_storage that persists the cached record when there is one.
write_to_storage_cached(s, st, ok) ==
    IF s.storage
    THEN LET u == StorageUpsert(st, IF s.db_row.exists THEN s.db_row
                                    ELSE to_database_row(s), ok)
             s1 == [s EXCEPT !.db_row = u.row]
         IN  [Effect(s1, u.st) EXCEPT !.upserts = 1, !.retRow = s1.db_row]
    ELSE [Effect(s, st) EXCEPT !.retRow = s.db_row]

\* write_to_storage that persists only a run with no cached record.
write_to_storage_if_new(s, st, ok) ==
    IF s.storage /\ ~s.db_row.exists
    THEN LET u == StorageUpsert(st, to_database_row(s), ok)
             s1 == [s EXCEPT !.db_row = u.row]
         IN  [Effect(s1, u.st) EXCEPT !.upserts = 1, !.retRow = s1.db_row]
    ELSE [Effect(s, st) EXCEPT !.retRow = s.db_row]

\* Assistant.write_to_storage
write_to_storage(s, st, ok) ==
    IF s.storage
    THEN LET u == StorageUpsert(st, to_database_row(s), ok)
             s1 == [s EXCEPT !.db_row = u.row]
         IN  [Effect(s1, u.st) EXCEPT !.upserts = 1, !.retRow = s1.db_row]
    ELSE [Effect(s, st) EXCEPT !.retRow = s.db_row]

\* Assistant.add_introduction
add_introduction(s, introduction) ==
    IF introduction # "None" /\ Len(s.memory.chat_history) = 0
    THEN [s EXCEPT !.memory = add_chat_message(@, Msg("assistant", introduction))]
    ELSE s

\* Assistant._api_log_assistant_run / _api_log_assistant_event
ApiLog(s) == IF s.monitoring THEN 1 ELSE 0

\* Assistant.create_run when no row is cached: load the run or create it.
create_new_run(s, st, ok) ==
    IF s.storage
    THEN LET r == read_from_storage(s, st)
         IN  IF ~r.a.db_row.exists
             THEN LET s1 == IF r.a.introduction # "" /\ r.a.introduction # "None"
                            THEN add_introduction(r.a, r.a.introduction) ELSE r.a
                      w == write_to_storage(s1, r.store, ok)
                  IN  IF ~w.a.db_row.exists
                      THEN [w EXCEPT !.raised = TRUE, !.reads = r.reads, !.retRow = NoRow]
                      ELSE LET s2 == [from_database_row(w.a, w.a.db_row)
                                        EXCEPT !.db_row = RowAfterLoad(w.a, w.a.db_row)]
                           IN  [w EXCEPT !.a = s2, !.reads = r.reads, !.retRow = NoRow,
                                         !.retId = s2.run_id, !.events = ApiLog(s2)]
             ELSE [r EXCEPT !.retRow = NoRow, !.retId = r.a.run_id]
    ELSE [Effect(s, st) EXCEPT !.retId = s.run_id]

\* create_run without the early return on a cached row.
create_run_uncached(s, st, ok) == create_new_run(s, st, ok)

\* Assistant.create_run
create_run(s, st, ok) ==
    IF s.db_row.exists
    THEN [Effect(s, st) EXCEPT !.retId = s.db_row.run_id]
    ELSE create_new_run(s, st, ok)

(***************************************************************************)
(* Values handled by the pipeline: None, a str, a BaseModel instance (its  *)
(* text is what model_dump_json produces, when it does not raise) or any   *)
(* other Python value (its text is what json.dumps produces).              *)
(***************************************************************************)
NoneVal == [kind |-> "none", text |-> <<>>, dumps |-> TRUE]

Str(t) == [kind |-> "str", text |-> t, dumps |-> TRUE]

Model(t, ok) == [kind |-> "model", text |-> t, dumps |-> ok]

Raw(t) == [kind |-> "raw", text |-> t, dumps |-> TRUE]

\* bool(v): an empty str, an empty mapping and None are falsy.
Truthy(v) ==
    CASE v.kind = "none" -> FALSE
      [] v.kind = "str" -> v.text # <<>>
      [] v.kind = "model" -> TRUE
      [] OTHER -> v.text # <<"E">>

(***************************************************************************)
(* The record of the last operation the caller performed, and of the one   *)
(* before it.                                                              *)
(***************************************************************************)
NoGen ==
    [kind |-> "none", pc |-> "done", stream |-> FALSE, message |-> NoneVal,
     tasks |-> <<>>, idx |-> 0, fi |-> 0, run_output |-> <<>>, outs |-> <<>>,
     inputs |-> <<>>, messages |-> <<>>, user_message |-> "None", deltas |-> 0,
     llm_response |-> <<>>]

Log(op, stream, e) ==
    [op |-> op, stream |-> stream,
     raised |-> e.raised, deferred |-> FALSE, done |-> ~e.raised, pullRaised |-> FALSE,
     reads |-> e.reads, upserts |-> e.upserts, events |-> e.events, calls |-> e.calls,
     retId |-> e.retId, retRow |-> e.retRow, retVal |-> NoneVal,
     adapterOk |-> TRUE, message |-> NoneVal, yielded |-> <<>>, inputs |-> <<>>,
     ranStream |-> FALSE, text |-> <<>>, parsed |-> NoneVal, parseOk |-> FALSE,
     trace |-> <<>>, llm_response |-> <<>>]

NoLog == Log("none", FALSE, Effect(NoRow, NoRow))

\* What is remembered of the operation before the last one: a create_run or
\* a run that completed, or that it was something else.
Brief(l) ==
    IF l.op \in {"create_run", "run"} /\ l.done
    THEN [op |-> l.op, retId |-> l.retId, ranStream |-> l.ranStream,
          message |-> l.message, text |-> l.text]
    ELSE [op |-> "other", retId |-> "None", ranStream |-> FALSE,
          message |-> NoneVal, text |-> <<>>]

\* No second instance.
NoOther == [exists |-> FALSE]

(***************************************************************************)
(* The task pipeline: Assistant._run is a generator; gen holds the frame   *)
(* of the generator the caller has in hand and pc the statement it is      *)
(* suspended at.                                                           *)
(***************************************************************************)
Sep == <<"n", "n">>

\* The state of an execution: the assistant, the storage, the frame, the
\* chunk just yielded (when paused) and the side effects so far.
Exec(s, st, g) ==
    [a |-> s, store |-> st, g |-> g, raised |-> FALSE, paused |-> FALSE, out |-> <<>>,
     reads |-> 0, upserts |-> 0, events |-> 0, calls |-> 0, trace |-> <<>>]

\* The frame of _run(message, stream) before its first statement.
RunFrame(message, stream) ==
    [NoGen EXCEPT !.kind = "run", !.pc = "start", !.stream = stream, !.message = message]

\* The input preparation without the serialization of a BaseModel.
TaskInputUnserialized(g) ==
    IF g.idx > 1 /\ g.outs[g.idx - 1].kind # "none"
    THEN g.outs[g.idx - 1]
    ELSE g.message

\* _run: the input message prepared for the task at g.idx.
TaskInput(g) ==
    IF g.idx > 1 /\ g.outs[g.idx - 1].kind # "none"
    THEN IF g.outs[g.idx - 1].kind = "model"
         THEN Str(g.outs[g.idx - 1].text)
         ELSE g.outs[g.idx - 1]
    ELSE g.message

\* _run: model_dump_json of the previous task's output raises.
TaskInputRaises(g) ==
    /\ g.idx > 1
    /\ g.outs[g.idx - 1].kind = "model"
    /\ ~g.outs[g.idx - 1].dumps

\* The forwarding of a chunk that drops its text.
ChunkStrDropped(c) == <<>>

\* _run: a streamed chunk as it is forwarded.
ChunkStr(c) == IF c.kind = "str" THEN c.text ELSE <<>>

\* What running a task leaves in the memory object the assistant shares with
\* it: a task that keeps a record appends its reply to the chat history.
TaskMemory(mem, t) ==
    IF t.remembers = "None" THEN mem
    ELSE add_chat_message(mem, Msg("assistant", t.remembers))

\* _run with a write-through after every task.
TaskDonePersisting(x, ok) ==
    LET t == x.g.tasks[x.g.idx]
        w == write_to_storage([x.a EXCEPT !.memory = TaskMemory(@, t)], x.store, ok)
    IN  [x EXCEPT !.a = w.a, !.store = w.store, !.upserts = @ + w.upserts,
                  !.trace = IF w.upserts = 1 THEN Append(@, "upsert") ELSE @,
                  !.g.outs = Append(@, t.output), !.g.idx = @ + 1, !.g.pc = "loop"]

\* _run: the end of one iteration of the task loop; the task holds its
\* output and the loop moves to the next task.
TaskDone(x, ok) ==
    LET t == x.g.tasks[x.g.idx]
    IN  [x EXCEPT !.a.memory = TaskMemory(@, t),
                  !.g.outs = Append(@, t.output), !.g.idx = @ + 1, !.g.pc = "loop"]

\* The separator test applied to the task about to run.
NeedsSepCurrent(g) == g.idx > 1 /\ g.tasks[g.idx].show_output

\* _run: a separator precedes the task at g.idx when the previous task is
\* visible.
NeedsSep(g) == g.idx > 1 /\ g.tasks[g.idx - 1].show_output

\* A yield: the generator is suspended with chunk c handed to the caller.
Yield(x, c) == [x EXCEPT !.paused = TRUE, !.out = c, !.trace = Append(@, "yield")]

\* One statement group of _run, from one suspension point to the next.
RunStep(x, ok) ==
    LET g == x.g
        t == g.tasks[g.idx]
    IN  CASE g.pc = "start" ->
               LET r == read_from_storage(x.a, x.store)
               IN  [x EXCEPT !.a = r.a, !.reads = @ + r.reads,
                             !.trace = IF r.reads = 1 THEN Append(@, "read") ELSE @,
                             !.g = [g EXCEPT !.pc = "loop", !.idx = 1,
                                             !.tasks = IF Len(r.a.tasks) = 0
                                                       THEN <<r.a.llm_task>> ELSE r.a.tasks]]
          [] g.pc = "loop" ->
               IF g.idx > Len(g.tasks) THEN [x EXCEPT !.g.pc = "write"]
               ELSE IF NeedsSep(g)
               THEN IF g.stream
                    THEN [Yield(x, Sep) EXCEPT !.g.pc = "sep"]
                    ELSE [x EXCEPT !.g.run_output = @ \o Sep, !.g.pc = "prep"]
               ELSE [x EXCEPT !.g.pc = "prep"]
          [] g.pc = "sep" -> [x EXCEPT !.g.run_output = @ \o Sep, !.g.pc = "prep"]
          [] g.pc = "prep" ->
               IF TaskInputRaises(g) THEN [x EXCEPT !.raised = TRUE, !.g.pc = "dead"]
               ELSE [x EXCEPT !.g.inputs = Append(@, TaskInput(g)),
                              !.trace = Append(@, "task"),
                              !.g.fi = 1,
                              !.g.pc = IF g.stream /\ t.streamable THEN "chunk" ELSE "batch"]
          [] g.pc = "chunk" ->
               IF g.fi > Len(t.frags)
               THEN TaskDone(x, ok)
               ELSE IF t.show_output
               THEN [Yield(x, ChunkStr(t.frags[g.fi])) EXCEPT
                              !.g.run_output = @ \o ChunkStr(t.frags[g.fi]),
                              !.g.fi = @ + 1]
               ELSE [x EXCEPT !.g.fi = @ + 1]
          [] g.pc = "batch" ->
               LET v == t.response
                   forwards == Truthy(v) /\ v.dumps /\ t.show_output
                   y == TaskDone(x, ok)
               IN  IF forwards
                   THEN IF g.stream
                        THEN Yield(y, v.text)
                        ELSE [y EXCEPT !.g.run_output = @ \o v.text]
                   ELSE y
          [] g.pc = "write" ->
               LET w == write_to_storage(x.a, x.store, ok)
               IN  [x EXCEPT !.a = w.a, !.store = w.store, !.upserts = @ + w.upserts,
                             !.trace = IF w.upserts = 1 THEN Append(@, "upsert") ELSE @,
                             !.g.pc = "event"]
          [] g.pc = "event" ->
               LET y == [x EXCEPT !.events = @ + ApiLog(x.a),
                                  !.trace = (IF ApiLog(x.a) = 1 THEN Append(@, "event") ELSE @)
                                            \o <<"output">>,
                                  !.g.llm_response = g.run_output,
                                  !.a.output = Str(g.run_output)]
               IN  IF ~g.stream
                   THEN [Yield(y, g.run_output) EXCEPT !.g.pc = "end"]
                   ELSE [y EXCEPT !.g.pc = "done"]
          [] OTHER -> [x EXCEPT !.g.pc = "done"]

Halted(x) == x.paused \/ x.raised \/ x.g.pc \in {"done", "dead"}

RECURSIVE RunAdvance(_, _)
\* next() on the generator of _run: execute up to the next yield, the end of
\* the body or an exception.
RunAdvance(x, ok) == IF Halted(x) THEN x ELSE RunAdvance(RunStep(x, ok), ok)

(***************************************************************************)
(* Raw chat passthrough: Assistant._chat_raw is a generator.               *)
(***************************************************************************)
ChatFrame(messages, user_message, stream, deltas) ==
    [NoGen EXCEPT !.kind = "chat_raw", !.pc = "start", !.stream = stream,
                  !.messages = messages, !.user_message = user_message,
                  !.deltas = deltas]

\* _chat_raw that records only the response in the histories.
ChatMemoryResponseOnly(mem, ms, addOk) ==
    IF addOk THEN add_chat_message(mem, ms[Len(ms)]) ELSE mem

\* _chat_raw: the memory after the prompts and the response are recorded;
\* addOk: add_chat_message accepts the last message of the list.
ChatMemory(mem, ms, addOk) ==
    LET m1 == add_llm_messages(mem, ms)
    IN  IF addOk THEN add_chat_message(m1, ms[Len(ms)]) ELSE m1

\* One statement group of _chat_raw.  env.ok: the adapter persists the
\* upsert; env.addOk: add_chat_message accepts the response message.
ChatStep(x, env) ==
    LET g == x.g
    IN  CASE g.pc = "start" ->
               IF x.a.llm.isNone THEN [x EXCEPT !.raised = TRUE, !.g.pc = "dead"]
               ELSE LET r == read_from_storage(x.a, x.store)
                        given == g.user_message # "None" /\ g.user_message # ""
                        s1 == IF given
                              THEN [r.a EXCEPT !.memory =
                                        add_chat_message(@, Msg("user", g.user_message))]
                              ELSE r.a
                    IN  [x EXCEPT !.a = s1,
                                  !.reads = @ + r.reads, !.calls = @ + 1,
                                  !.trace = @ \o (IF r.reads = 1 THEN <<"read">> ELSE <<>>)
                                              \o (IF given THEN <<"user">> ELSE <<>>)
                                              \o <<"call">>,
                                  !.g.fi = 1,
                                  !.g.pc = IF g.stream THEN "delta" ELSE "finish"]
          [] g.pc = "delta" ->
               IF g.fi <= g.deltas
               THEN [Yield(x, <<"d">>) EXCEPT !.g.fi = @ + 1]
               ELSE [x EXCEPT !.g.pc = "finish"]
          [] g.pc = "finish" ->
               LET ms == Append(g.messages, ResponseMsg)
                   w == write_to_storage([x.a EXCEPT !.memory = ChatMemory(@, ms, env.addOk)],
                                         x.store, env.ok)
               IN  [x EXCEPT !.a = w.a, !.store = w.store, !.upserts = @ + w.upserts,
                             !.trace = @ \o <<"llm_messages">>
                                         \o (IF env.addOk THEN <<"chat">> ELSE <<"chat_failed">>)
                                         \o (IF w.upserts = 1 THEN <<"upsert">> ELSE <<>>),
                             !.g.messages = ms, !.g.pc = "event"]
          [] g.pc = "event" ->
               LET y == [x EXCEPT !.events = @ + ApiLog(x.a),
                                  !.trace = IF ApiLog(x.a) = 1 THEN Append(@, "event") ELSE @]
               IN  IF ~g.stream
                   THEN [Yield(y, <<"ans">>) EXCEPT !.g.pc = "end"]
                   ELSE [y EXCEPT !.g.pc = "done"]
          [] OTHER -> [x EXCEPT !.g.pc = "done"]

RECURSIVE ChatAdvance(_, _)
\* next() on the generator of _chat_raw.
ChatAdvance(x, env) == IF Halted(x) THEN x ELSE ChatAdvance(ChatStep(x, env), env)

(***************************************************************************)
(* Naming helpers                                                          *)
(***************************************************************************)
RECURSIVE WordCount(_)
\* len(t.split()): the number of maximal runs of tokens that are not spaces.
WordCount(t) ==
    IF t = <<>> THEN 0
    ELSE IF Head(t) = "s" THEN WordCount(Tail(t))
    ELSE IF Len(t) = 1 \/ t[2] = "s" THEN 1 + WordCount(Tail(t))
    ELSE WordCount(Tail(t))

RECURSIVE Unquote(_)
\* t.replace('"', "")
Unquote(t) ==
    IF t = <<>> THEN <<>>
    ELSE IF Head(t) = "q" THEN Unquote(Tail(t))
    ELSE <<Head(t)>> \o Unquote(Tail(t))

RECURSIVE StripSpaces(_)
\* t.strip()
StripSpaces(t) ==
    IF t = <<>> THEN <<>>
    ELSE IF Head(t) = "s" THEN StripSpaces(Tail(t))
    ELSE IF t[Len(t)] = "s" THEN StripSpaces(SubSeq(t, 1, Len(t) - 1))
    ELSE t

NameWordLimit == 15

\* t[lo:hi] of a Python list (0-based, hi exclusive, clipped).
Slice(t, lo, hi) == SubSeq(t, lo + 1, IF hi < Len(t) THEN hi ELSE Len(t))

\* generate_name: the messages the naming prompt is built from.
NamePrompt(s) ==
    LET ch == s.memory.chat_history
        lm == s.memory.llm_messages
        picked == IF Len(ch) = 0 THEN <<>>
                  ELSE IF ch[1].role = "assistant" THEN Slice(ch, 1, 6)
                  ELSE Slice(ch, 0, 6)
    IN  IF Len(picked) = 0
        THEN SubSeq(lm, IF Len(lm) > 4 THEN Len(lm) - 3 ELSE 1, Len(lm))
        ELSE picked

\* generate_name that holds the model to the five words the prompt asks for.
name_accepted_five(reply) == WordCount(reply) <= 5

\* generate_name: the response passes the length check.
name_accepted(reply) == ~(WordCount(reply) > NameWordLimit)

\* generate_name: the value returned for an accepted response.
clean_name(reply) == StripSpaces(Unquote(reply))

RECURSIVE name_calls(_)
\* generate_name: the model calls made when the model answers with replies
\* in order; a response that fails the length check leads to the next call.
name_calls(replies) ==
    IF name_accepted(Head(replies)) \/ Len(replies) = 1 THEN 1
    ELSE 1 + name_calls(Tail(replies))

\* Assistant.generate_name, given the replies the model makes to its calls in
\* order (the last of them passes the length check).
generate_name(s, replies) ==
    IF s.llm.isNone
    THEN [raised |-> TRUE, name |-> NoneText, calls |-> 0]
    ELSE [raised |-> FALSE,
          name |-> clean_name(replies[name_calls(replies)]),
          calls |-> name_calls(replies)]

\* Assistant.rename
rename(s, st, name, ok) ==
    LET r == read_from_storage(s, st)
        w == write_to_storage([r.a EXCEPT !.name = name], r.store, ok)
    IN  [w EXCEPT !.reads = r.reads, !.retRow = NoRow, !.events = ApiLog(w.a)]

\* Assistant.rename_run
rename_run(s, st, name, ok) ==
    LET r == read_from_storage(s, st)
        w == write_to_storage([r.a EXCEPT !.run_name = name], r.store, ok)
    IN  [w EXCEPT !.reads = r.reads, !.retRow = NoRow, !.events = ApiLog(w.a)]

\* Assistant.auto_rename_run
auto_rename_run(s, st, replies, ok) ==
    LET r == read_from_storage(s, st)
        n == generate_name(r.a, replies)
        w == write_to_storage([r.a EXCEPT !.run_name = n.name], r.store, ok)
    IN  IF n.raised
        THEN [r EXCEPT !.raised = TRUE, !.retRow = NoRow]
        ELSE [w EXCEPT !.reads = r.reads, !.calls = n.calls, !.retRow = NoRow,
                       !.events = ApiLog(w.a)]

(***************************************************************************)
(* Structured output post-processing (Assistant.run)                       *)
(***************************************************************************)
RECURSIVE LStrip(_)
LStrip(t) == IF t # <<>> /\ Head(t) = "n" THEN LStrip(Tail(t)) ELSE t

RECURSIVE RStrip(_)
RStrip(t) == IF t # <<>> /\ t[Len(t)] = "n" THEN RStrip(SubSeq(t, 1, Len(t) - 1)) ELSE t

\* JSON ignores the whitespace around a document.
JsonBody(t) == RStrip(LStrip(t))

\* json.loads: the parsed value, or none when it raises.
json_loads(t) ==
    IF JsonBody(t) \in {<<"V">>, <<"E">>}
    THEN [ok |-> TRUE, val |-> Raw(JsonBody(t))]
    ELSE [ok |-> FALSE, val |-> NoneVal]

\* output_model.model_validate_json: the instance, or none on ValidationError.
model_validate_json(t) ==
    IF JsonBody(t) = <<"V">>
    THEN [ok |-> TRUE, val |-> Model(<<"V">>, TRUE)]
    ELSE [ok |-> FALSE, val |-> NoneVal]

\* str.startswith
StartsWith(t, p) == Len(t) >= Len(p) /\ SubSeq(t, 1, Len(p)) = p

RECURSIVE Replace(_, _)
\* str.replace(p, ""): every non-overlapping occurrence, left to right.
Replace(t, p) ==
    IF t = <<>> THEN <<>>
    ELSE IF StartsWith(t, p) THEN Replace(SubSeq(t, Len(p) + 1, Len(t)), p)
    ELSE <<Head(t)>> \o Replace(Tail(t), p)

\* run: json_resp after the fenced-code wrapper is stripped.
StripFence(t) == Replace(Replace(t, <<"f", "j", "n">>), <<"n", "f">>)

\* run: the conversion of json_resp; structured is none when no attempt
\* succeeded, and json_resp is the text as the attempts left it.
ParseOutput(output_model, json_resp) ==
    IF output_model = "str"
    THEN [structured |-> json_loads(json_resp).val, json_resp |-> json_resp]
    ELSE IF model_validate_json(json_resp).ok
    THEN [structured |-> model_validate_json(json_resp).val, json_resp |-> json_resp]
    ELSE IF StartsWith(json_resp, <<"f", "j">>)
    THEN [structured |-> model_validate_json(StripFence(json_resp)).val,
          json_resp |-> StripFence(json_resp)]
    ELSE [structured |-> NoneVal, json_resp |-> json_resp]

\* The return value taken from json_resp alone.
OutputOrJson(output, json_resp) == IF output.kind # "str" THEN output ELSE Str(json_resp)

\* run: the value of self.output or json_resp.
OutputOr(output, json_resp) == IF Truthy(output) THEN output ELSE Str(json_resp)

\* Assistant.streamable
streamable(s) == s.output_model = "None"

(***************************************************************************)
(* Construction                                                            *)
(***************************************************************************)
NoTask ==
    [show_output |-> TRUE, streamable |-> TRUE, response |-> NoneVal,
     frags |-> <<>>, output |-> NoneVal, remembers |-> "None"]

TaskOf(show, strm, resp, frags, out) ==
    [show_output |-> show, streamable |-> strm, response |-> resp,
     frags |-> frags, output |-> out, remembers |-> "None"]

SimpleTask == TaskOf(TRUE, TRUE, Str(<<"w">>), <<Str(<<"w">>)>>, Str(<<"w">>))

BaseAssistant ==
    [llm |-> [isNone |-> FALSE, metrics |-> 0], introduction |-> "None", name |-> NoneText,
     assistant_data |-> NoneDict, run_id |-> "r1", run_name |-> NoneText,
     run_data |-> NoneDict, user_id |-> "None", user_data |-> NoneDict,
     memory |-> EmptyMemory, storage |-> FALSE, db_row |-> NoRow,
     output_model |-> "None", parse_output |-> TRUE, output |-> NoneVal,
     tasks |-> <<>>, llm_task |-> NoTask, task_data |-> NoneDict, monitoring |-> TRUE]

\* A record some client persisted under run id r for user u.
ExtRow(r, u, valid) ==
    [NoRow EXCEPT !.exists = TRUE, !.run_id = r, !.user_id = u, !.name = <<"u">>,
                  !.memory = [isNone |-> FALSE, valid |-> valid,
                              mem |-> add_chat_message(EmptyMemory, UserMsg)],
                  !.run_data = SomeDict([k \in Keys |-> 1])]

ExtRows(r) == {ExtRow(r, "u1", TRUE), ExtRow(r, "u2", TRUE), ExtRow(r, "u1", FALSE)}

EmptyStore == [r \in RunIds |-> NoRow]

Init ==
    /\ \E r \in RunIds, u \in {"None", "u1"}, s \in BOOLEAN, i \in {"None", "intro"},
          l \in BOOLEAN, t \in BOOLEAN :
          a = [BaseAssistant EXCEPT !.run_id = r, !.user_id = u, !.storage = s,
                                    !.introduction = i,
                                    !.run_data = SomeDict([k \in Keys |-> IF k = "x" THEN 2 ELSE 0]),
                                    !.llm = [isNone |-> ~l, metrics |-> 0],
                                    !.tasks = IF t THEN <<SimpleTask>> ELSE <<>>,
                                    !.llm_task = SimpleTask]
    /\ store = EmptyStore
    /\ gen = NoGen
    /\ last = NoLog
    /\ prev = Brief(NoLog)
    /\ other = NoOther

\* What the adapter's upsert may do during a call on assistant s: persist the
\* row (TRUE) or return nothing (FALSE); without an adapter there is no upsert.
AdapterOutcomes(s) == IF s.storage THEN BOOLEAN ELSE {TRUE}

\* The caller's call of a method that runs to completion: e is its effect.
Called(op, stream, e) ==
    /\ a' = e.a
    /\ store' = e.store
    /\ prev' = Brief(last)
    /\ last' = Log(op, stream, e)

ReadFromStorage ==
    /\ gen.kind = "none"
    /\ Called("read_from_storage", FALSE, read_from_storage(a, store))
    /\ UNCHANGED <<gen, other>>

WriteToStorage ==
    /\ gen.kind = "none"
    /\ \E ok \in AdapterOutcomes(a) :
          /\ a' = write_to_storage(a, store, ok).a
          /\ store' = write_to_storage(a, store, ok).store
          /\ prev' = Brief(last)
          /\ last' = [Log("write_to_storage", FALSE, write_to_storage(a, store, ok))
                         EXCEPT !.adapterOk = ok]
    /\ UNCHANGED <<gen, other>>

CreateRun ==
    /\ gen.kind = "none"
    /\ \E ok \in AdapterOutcomes(a) : Called("create_run", FALSE, create_run(a, store, ok))
    /\ UNCHANGED <<gen, other>>

\* Another client of the same storage persists a record.
External ==
    /\ \E r \in RunIds : \E row \in ExtRows(r) :
          store' = [store EXCEPT ![r] = row]
    /\ prev' = Brief(last)
    /\ last' = [NoLog EXCEPT !.op = "external"]
    /\ UNCHANGED <<a, gen, other>>

\* What an execution did, as the effect of the call that drove it.
AsEffect(x) ==
    [Effect(x.a, x.store) EXCEPT !.raised = x.raised, !.reads = x.reads,
                                 !.upserts = x.upserts, !.events = x.events,
                                 !.calls = x.calls]

Messages == {Str(<<"m">>)}

\* Assistant.run with parsing: _run is driven to its only yield in
\* non-streaming mode and the text converted to the output model.
RunParsed(message, stream, ok) ==
    LET x == RunAdvance(Exec(a, store, RunFrame(message, FALSE)), ok)
        p == ParseOutput(a.output_model, x.out)
        out == IF p.structured.kind # "none" THEN p.structured ELSE x.a.output
    IN  /\ a' = IF x.raised THEN x.a ELSE [x.a EXCEPT !.output = out]
        /\ store' = x.store
        /\ gen' = NoGen
        /\ last' = [Log("run", stream, AsEffect(x)) EXCEPT
                       !.message = message, !.inputs = x.g.inputs, !.text = x.out,
                       !.yielded = IF x.raised THEN <<>> ELSE <<x.out>>,
                       !.trace = x.trace, !.llm_response = x.g.llm_response,
                       !.adapterOk = x.upserts = 0 \/ ok,
                       !.parsed = p.structured,
                       !.parseOk = ~x.raised /\ p.structured.kind # "none",
                       !.retVal = IF x.raised THEN NoneVal ELSE OutputOr(out, p.json_resp)]

\* Assistant.run returning the generator of _run(stream=True) unstarted.
RunStreamed(message) ==
    /\ gen' = RunFrame(message, TRUE)
    /\ last' = [Log("run", TRUE, Effect(a, store)) EXCEPT
                   !.message = message, !.deferred = TRUE, !.done = FALSE,
                   !.ranStream = TRUE]
    /\ UNCHANGED <<a, store>>

\* Assistant.run returning next(_run(stream=False)).
RunBatch(message, stream, ok) ==
    LET x == RunAdvance(Exec(a, store, RunFrame(message, FALSE)), ok)
    IN  /\ a' = x.a
        /\ store' = x.store
        /\ gen' = NoGen
        /\ last' = [Log("run", stream, AsEffect(x)) EXCEPT
                       !.message = message, !.inputs = x.g.inputs, !.text = x.out,
                       !.yielded = IF x.raised THEN <<>> ELSE <<x.out>>,
                       !.trace = x.trace, !.llm_response = x.g.llm_response,
                       !.adapterOk = x.upserts = 0 \/ ok,
                       !.retVal = IF x.raised THEN NoneVal ELSE Str(x.out)]

\* Assistant.run
Run ==
    /\ gen.kind = "none"
    /\ prev' = Brief(last)
    /\ UNCHANGED other
    /\ \E message \in Messages, stream \in BOOLEAN, ok \in AdapterOutcomes(a) :
          IF a.output_model # "None" /\ a.parse_output
          THEN RunParsed(message, stream, ok)
          ELSE IF stream /\ streamable(a)
          THEN RunStreamed(message)
          ELSE RunBatch(message, stream, ok)

\* The caller pulls the next chunk from the generator run returned.
RunPull ==
    /\ gen.kind = "run"
    /\ \E ok \in AdapterOutcomes(a) :
          LET x == RunAdvance(Exec(a, store, gen), ok)
          IN  /\ a' = x.a
              /\ store' = x.store
              /\ gen' = IF x.paused THEN x.g ELSE NoGen
              /\ last' = [last EXCEPT
                             !.yielded = IF x.paused THEN Append(@, x.out) ELSE @,
                             !.text = IF x.paused THEN @ \o x.out ELSE @,
                             !.inputs = x.g.inputs,
                             !.trace = @ \o x.trace, !.llm_response = x.g.llm_response,
                             !.adapterOk = IF x.upserts > 0 THEN ok ELSE @,
                             !.done = x.g.pc = "done",
                             !.pullRaised = x.raised,
                             !.reads = @ + x.reads, !.upserts = @ + x.upserts,
                             !.events = @ + x.events, !.calls = @ + x.calls]
    /\ UNCHANGED <<prev, other>>

\* The caller drops the generator without exhausting it.
Abandon ==
    /\ gen.kind # "none"
    /\ gen' = NoGen
    /\ UNCHANGED <<a, store, last, prev, other>>

CallerMessages == {<<SystemMsg>>}

Max(i, j) == IF i > j THEN i ELSE j

\* The histories stay within MaxHist after a chat_raw that adds to them.
Room(messages, user_message) ==
    LET stored == StorageRead(store, a.run_id).memory.mem
    IN  /\ Max(Len(a.memory.chat_history), Len(stored.chat_history))
              + (IF user_message = "None" THEN 1 ELSE 2) <= MaxHist
        /\ Max(Len(a.memory.llm_messages), Len(stored.llm_messages))
              + Len(messages) + 1 <= MaxHist

\* chat_raw that lets a configured task list through.
chat_raw_accepts_tasks(s) == FALSE

\* chat_raw: the task list makes the call a usage error.
chat_raw_rejects(s) == Len(s.tasks) > 0

\* Assistant.chat_raw
ChatRaw ==
    /\ gen.kind = "none"
    /\ prev' = Brief(last)
    /\ UNCHANGED other
    /\ \E messages \in CallerMessages, user_message \in {"None", "q"}, stream \in BOOLEAN :
          /\ Room(messages, user_message)
          /\ IF chat_raw_rejects(a)
             THEN /\ last' = [Log("chat_raw", stream, Effect(a, store)) EXCEPT
                                 !.raised = TRUE, !.done = FALSE]
                  /\ UNCHANGED <<a, store, gen>>
             ELSE IF stream
             THEN /\ \E deltas \in 0..MaxDeltas :
                        gen' = ChatFrame(messages, user_message, TRUE, deltas)
                  /\ last' = [Log("chat_raw", TRUE, Effect(a, store)) EXCEPT
                                 !.deferred = TRUE, !.done = FALSE, !.ranStream = TRUE,
                                 !.message = Str(<<user_message>>)]
                  /\ UNCHANGED <<a, store>>
             ELSE \E env \in [ok : AdapterOutcomes(a), addOk : BOOLEAN] :
                     LET x == ChatAdvance(Exec(a, store,
                                               ChatFrame(messages, user_message, FALSE, 0)), env)
                     IN  /\ a' = x.a
                         /\ store' = x.store
                         /\ gen' = NoGen
                         /\ last' = [Log("chat_raw", FALSE, AsEffect(x)) EXCEPT
                                        !.trace = x.trace, !.inputs = x.g.messages,
                                        !.message = Str(<<user_message>>),
                                        !.adapterOk = x.upserts = 0 \/ env.ok]

\* The caller pulls the next response delta from the generator chat_raw
\* returned.
ChatRawPull ==
    /\ gen.kind = "chat_raw"
    /\ Room(gen.messages, gen.user_message) \/ gen.pc # "start"
    /\ \E env \in [ok : AdapterOutcomes(a), addOk : BOOLEAN] :
          LET x == ChatAdvance(Exec(a, store, gen), env)
          IN  /\ a' = x.a
              /\ store' = x.store
              /\ gen' = IF x.paused THEN x.g ELSE NoGen
              /\ last' = [last EXCEPT
                             !.yielded = IF x.paused THEN Append(@, x.out) ELSE @,
                             !.trace = @ \o x.trace, !.inputs = x.g.messages,
                             !.adapterOk = IF x.upserts > 0 THEN env.ok ELSE @,
                             !.done = x.g.pc = "done",
                             !.pullRaised = x.raised,
                             !.reads = @ + x.reads, !.upserts = @ + x.upserts,
                             !.events = @ + x.events, !.calls = @ + x.calls]
    /\ UNCHANGED <<prev, other>>

\* n words separated by single spaces.
Words(n) == [i \in 1..(2 * n - 1) |-> IF i % 2 = 1 THEN "w" ELSE "s"]

ShortReplies == {<<"q", "w", "s", "u", "q">>, <<"s", "w", "q", "u", "s">>, Words(NameWordLimit)}

LongReplies == {Words(NameWordLimit + 1)}

MaxRetries == 1

\* The replies of the model to one generate_name: up to MaxRetries replies
\* that are too long, then one that is accepted.
ReplyRuns ==
    {long \o <<r>> : long \in UNION {[1..n -> LongReplies] : n \in 0..MaxRetries},
                     r \in ShortReplies}

\* The reply runs that end in a quoted two-word name.
AutoReplies == {r \in ReplyRuns : r[Len(r)] = <<"q", "w", "s", "u", "q">>}

\* Assistant.generate_name
GenerateName ==
    /\ gen.kind = "none"
    /\ prev' = Brief(last)
    /\ \E replies \in AutoReplies :
          LET r == generate_name(a, replies)
          IN  /\ last' = [Log("generate_name", FALSE, Effect(a, store)) EXCEPT
                             !.raised = r.raised, !.done = ~r.raised, !.calls = r.calls,
                             !.retVal = IF r.raised THEN NoneVal ELSE Str(r.name)]
    /\ UNCHANGED <<a, store, gen, other>>

Names == {<<"w">>}

\* Assistant.rename
Rename ==
    /\ gen.kind = "none"
    /\ \E name \in Names, ok \in BOOLEAN :
          Called("rename", FALSE, rename(a, store, name, ok))
    /\ UNCHANGED <<gen, other>>

\* Assistant.rename_run
RenameRun ==
    /\ gen.kind = "none"
    /\ \E name \in Names, ok \in BOOLEAN :
          Called("rename_run", FALSE, rename_run(a, store, name, ok))
    /\ UNCHANGED <<gen, other>>

\* Assistant.auto_rename_run
AutoRenameRun ==
    /\ gen.kind = "none"
    /\ \E replies \in AutoReplies, ok \in BOOLEAN :
          Called("auto_rename_run", FALSE, auto_rename_run(a, store, replies, ok))
    /\ UNCHANGED <<gen, other>>

Next ==
    \/ ReadFromStorage
    \/ WriteToStorage
    \/ CreateRun
    \/ External
    \/ ChatRaw
    \/ ChatRawPull
    \/ Abandon
    \/ GenerateName

Spec == Init /\ [][Next]_vars

(***************************************************************************)
(* The pipeline specification: task lists drawn from a set of task         *)
(* behaviours, each run in both modes.                                     *)
(***************************************************************************)
\* What a task does when run: its batch result, its streamed chunks and the
\* output it holds afterwards.
Behaviours ==
    { <<Str(<<"w", "u">>), <<Str(<<"w">>), Str(<<"u">>)>>, Str(<<"w", "u">>)>>,
      <<Model(<<"V">>, TRUE), <<Str(<<"V">>)>>, Model(<<"V">>, TRUE)>>,
      <<Model(<<"V">>, FALSE), <<Str(<<"V">>)>>, Model(<<"V">>, FALSE)>>,
      <<NoneVal, <<>>, NoneVal>>,
      <<Raw(<<"E">>), <<Raw(<<"E">>)>>, Raw(<<"E">>)>> }

\* A streamable task yields fragments of text or other objects; a task with
\* a structured result or none is not streamable.
TaskSet ==
    {TaskOf(c[1], c[2], c[3][1], c[3][2], c[3][3]) :
        c \in {d \in BOOLEAN \X BOOLEAN \X Behaviours :
                    d[2] => d[3][1].kind \in {"str", "raw"}}}

TaskLists == UNION {[1..n -> TaskSet] : n \in 1..MaxTasks}

InitRun ==
    /\ \/ \E ts \in TaskLists :
             a = [BaseAssistant EXCEPT !.tasks = ts, !.llm_task = SimpleTask]
       \/ \E t \in TaskSet :
             a = [BaseAssistant EXCEPT !.tasks = <<>>, !.llm_task = t]
    /\ store = EmptyStore
    /\ gen = NoGen
    /\ last = NoLog
    /\ prev = Brief(NoLog)
    /\ other = NoOther

NextRun ==
    \/ Run
    \/ RunPull
    \/ Abandon

SpecRun == InitRun /\ [][NextRun]_vars

(***************************************************************************)
(* The stored-run specification: a storage adapter is configured, other    *)
(* clients persist records under the run id, and the assistant runs its    *)
(* tasks in both modes.                                                    *)
(***************************************************************************)
StoredTasks == {SimpleTask, TaskOf(FALSE, FALSE, Str(<<"u">>), <<Str(<<"u">>)>>, Str(<<"u">>))}

StoredTaskLists == UNION {[1..n -> StoredTasks] : n \in 0..MaxTasks}

InitStored ==
    /\ \E u \in {"None", "u1"}, ts \in StoredTaskLists :
          a = [BaseAssistant EXCEPT !.storage = TRUE, !.user_id = u,
                                    !.tasks = ts, !.llm_task = SimpleTask]
    /\ store = EmptyStore
    /\ gen = NoGen
    /\ last = NoLog
    /\ prev = Brief(NoLog)
    /\ other = NoOther

NextStored ==
    \/ Run
    \/ RunPull
    \/ Abandon
    \/ External

SpecStored == InitStored /\ [][NextStored]_vars

(***************************************************************************)
(* The renaming specification: an assistant with a user id and a storage   *)
(* adapter is renamed and runs its default task while other clients        *)
(* persist records under its run id.                                       *)
(***************************************************************************)
InitRename ==
    /\ a = [BaseAssistant EXCEPT !.storage = TRUE, !.user_id = "u1",
                               !.llm_task = SimpleTask]
    /\ store = EmptyStore
    /\ gen = NoGen
    /\ last = NoLog
    /\ prev = Brief(NoLog)
    /\ other = NoOther

NextRename ==
    \/ External
    \/ Rename
    \/ RenameRun
    \/ AutoRenameRun
    \/ Run
    \/ RunPull
    \/ Abandon

SpecRename == InitRename /\ [][NextRename]_vars

(***************************************************************************)
(* The naming specification: generate_name one model call at a time, on    *)
(* assistants with every history up to MaxHist messages.                   *)
(***************************************************************************)
\* The frame of generate_name waiting for the model's response.
NameFrame == [NoGen EXCEPT !.kind = "name", !.pc = "ask"]

Replies == ShortReplies \cup LongReplies

\* The caller calls generate_name: without a model it raises, otherwise it
\* builds the prompt and calls the model.
NameCall ==
    /\ gen.kind = "none"
    /\ prev' = Brief(last)
    /\ IF a.llm.isNone
       THEN /\ last' = [Log("generate_name", FALSE, Effect(a, store)) EXCEPT
                           !.raised = TRUE, !.done = FALSE]
            /\ gen' = gen
       ELSE /\ last' = [Log("generate_name", FALSE, Effect(a, store)) EXCEPT
                           !.done = FALSE, !.inputs = NamePrompt(a)]
            /\ gen' = NameFrame
    /\ UNCHANGED <<a, store, other>>

\* The model responds: generate_name returns the cleaned response or calls
\* itself again, which builds the prompt anew and calls the model.
NameReply ==
    /\ gen.kind = "name"
    /\ \E reply \in Replies :
          /\ name_accepted(reply) \/ last.calls < MaxRetries
          /\ IF name_accepted(reply)
             THEN /\ gen' = NoGen
                  /\ last' = [last EXCEPT !.calls = @ + 1, !.text = reply, !.done = TRUE,
                                          !.retVal = Str(clean_name(reply))]
             ELSE /\ gen' = NameFrame
                  /\ last' = [last EXCEPT !.calls = @ + 1, !.text = reply,
                                          !.inputs = NamePrompt(a)]
    /\ UNCHANGED <<a, store, prev, other>>

Histories(ms) == UNION {[1..n -> ms] : n \in 0..MaxHist}

InitName ==
    /\ \E l \in BOOLEAN, ch \in Histories({IntroMsg, UserMsg, ResponseMsg}),
          lm \in Histories({SystemMsg, UserMsg}) :
          a = [BaseAssistant EXCEPT !.llm = [isNone |-> ~l, metrics |-> 0],
                                    !.memory = [chat_history |-> ch, llm_messages |-> lm]]
    /\ store = EmptyStore
    /\ gen = NoGen
    /\ last = NoLog
    /\ prev = Brief(NoLog)
    /\ other = NoOther

NextName ==
    \/ NameCall
    \/ NameReply

SpecName == InitName /\ [][NextName]_vars

(***************************************************************************)
(* The two-instance specification: two assistants with the same run id and *)
(* the same storage each run once; the caller works with one of them at a  *)
(* time and may turn to the other between any two calls or pulls.          *)
(***************************************************************************)
\* A task that records its reply in the shared memory.
RecordingTask(sh, sm, reply) ==
    [TaskOf(sh, sm, Str(<<"w">>), <<Str(<<"w">>)>>, Str(<<"w">>)) EXCEPT !.remembers = reply]

Instance(sh, sm, reply) ==
    [BaseAssistant EXCEPT !.storage = TRUE, !.llm_task = RecordingTask(sh, sm, reply)]

InitRace ==
    /\ \E sh1 \in BOOLEAN, sm1 \in BOOLEAN, sh2 \in BOOLEAN, sm2 \in BOOLEAN :
          /\ a = Instance(sh1, sm1, "ans1")
          /\ other = [exists |-> TRUE, a |-> Instance(sh2, sm2, "ans2"),
                      gen |-> NoGen, last |-> NoLog]
    /\ store = EmptyStore
    /\ gen = NoGen
    /\ last = NoLog
    /\ prev = Brief(NoLog)

\* The caller turns to the other instance.
Switch ==
    /\ other.exists
    /\ a' = other.a
    /\ gen' = other.gen
    /\ last' = other.last
    /\ other' = [other EXCEPT !.a = a, !.gen = gen, !.last = last]
    /\ UNCHANGED <<store, prev>>

\* The instance at hand, which has not run yet, runs.
FirstRun ==
    /\ last.op = "none"
    /\ Run

NextRace ==
    \/ FirstRun
    \/ RunPull
    \/ Abandon
    \/ Switch

SpecRace == InitRace /\ [][NextRace]_vars

(***************************************************************************)
(* The parsing specification: an output model is configured and the        *)
(* default task produces a body (nothing, a valid document, the empty      *)
(* mapping or a word) between up to MaxFence leading and two trailing      *)
(* fence and newline tokens.                                               *)
(***************************************************************************)
Prefixes == UNION {[1..n -> {"f", "j", "n"}] : n \in 0..MaxFence}

Bodies == {<<>>, <<"V">>, <<"E">>, <<"w">>}

Suffixes == UNION {[1..n -> {"n", "f"}] : n \in 0..2}

Texts == {p \o b \o x : p \in Prefixes, b \in Bodies, x \in Suffixes}

InitParse ==
    /\ \E t \in Texts, om \in {"str", "model"} :
          a = [BaseAssistant EXCEPT
                  !.output_model = om, !.parse_output = TRUE,
                  !.llm_task = TaskOf(TRUE, FALSE, Str(t), <<Str(t)>>, Str(t))]
    /\ store = EmptyStore
    /\ gen = NoGen
    /\ last = NoLog
    /\ prev = Brief(NoLog)
    /\ other = NoOther

NextParse ==
    \/ Run

SpecParse == InitParse /\ [][NextParse]_vars

(***************************************************************************)
(* The merge specification: one metadata dictionary of the assistant and   *)
(* of the persisted record range over all dictionaries, the other three    *)
(* are fixed and pairwise different; the record is then loaded.            *)
(***************************************************************************)
DataFields == {"assistant_data", "run_data", "user_data", "task_data"}

D(x, y) == SomeDict([k \in Keys |-> IF k = "x" THEN x ELSE y])

FixedLive ==
    [assistant_data |-> D(1, 0), run_data |-> D(0, 2), user_data |-> NoneDict,
     task_data |-> D(2, 1)]

FixedPersisted ==
    [assistant_data |-> D(2, 1), run_data |-> D(1, 1), user_data |-> D(1, 2),
     task_data |-> NoneDict]

WithData(r, f) ==
    [r EXCEPT !.assistant_data = f.assistant_data, !.run_data = f.run_data,
              !.user_data = f.user_data, !.task_data = f.task_data]

InitMerge ==
    /\ \E fld \in DataFields, l \in OptDict, p \in OptDict :
          /\ a = WithData([BaseAssistant EXCEPT !.storage = TRUE],
                          [FixedLive EXCEPT ![fld] = l])
          /\ store = [r \in RunIds |->
                        WithData([ExtRow(r, "None", TRUE) EXCEPT !.run_data = NoneDict],
                                 [FixedPersisted EXCEPT ![fld] = p])]
    /\ gen = NoGen
    /\ last = NoLog
    /\ prev = Brief(NoLog)
    /\ other = NoOther

NextMerge ==
    \/ ReadFromStorage

SpecMerge == InitMerge /\ [][NextMerge]_vars

(***************************************************************************)
(* Properties                                                              *)
(***************************************************************************)
\* The record persisted under the assistant's run id.
Persisted == StorageRead(store, a.run_id)

\* The task list a run executes.
Tasks(s) == IF Len(s.tasks) = 0 THEN <<s.llm_task>> ELSE s.tasks

\* The step is a call of read_from_storage that the user-id check rejects.
MismatchRead ==
    /\ last'.op = "read_from_storage"
    /\ a.storage
    /\ a.user_id # "None"
    /\ Persisted.exists
    /\ Persisted.user_id # a.user_id

\* C1: a read_from_storage on an assistant whose user_id differs from the
\* persisted record's returns no record and leaves db_row, name, run_name,
\* user_id, memory and the four metadata dictionaries as they were.
C1_MismatchReadLeavesState ==
    [][MismatchRead =>
          /\ ~last'.retRow.exists
          /\ a'.db_row = a.db_row
          /\ a'.name = a.name
          /\ a'.run_name = a.run_name
          /\ a'.user_id = a.user_id
          /\ a'.memory = a.memory
          /\ a'.assistant_data = a.assistant_data
          /\ a'.run_data = a.run_data
          /\ a'.user_data = a.user_data
          /\ a'.task_data = a.task_data]_vars

\* The merge of one metadata dictionary as the claim describes it.
MergedAsClaimed(live, persisted, result) ==
    /\ (~live.isNone /\ ~persisted.isNone) =>
          /\ ~result.isNone
          /\ DictKeys(result.d) = DictKeys(live.d) \cup DictKeys(persisted.d)
          /\ \A k \in DictKeys(live.d) \cap DictKeys(persisted.d) : result.d[k] = live.d[k]
          /\ \A k \in DictKeys(persisted.d) \ DictKeys(live.d) : result.d[k] = persisted.d[k]
    /\ live.isNone => result = persisted
    /\ persisted.isNone => result = live

\* The step loads the persisted record into the assistant.
LoadsRow ==
    /\ last'.op = "read_from_storage"
    /\ a.storage
    /\ Persisted.exists
    /\ a.user_id = "None" \/ Persisted.user_id = a.user_id

\* C2: after from_database_row merges a persisted record, each of the four
\* metadata dictionaries has the keys of both sides with the live value on
\* shared keys and the persisted value on persisted-only keys; an absent live
\* dictionary becomes the persisted one and an absent persisted one leaves the
\* live one unchanged.
C2_MetadataMerge ==
    [][LoadsRow =>
          /\ MergedAsClaimed(a.assistant_data, Persisted.assistant_data, a'.assistant_data)
          /\ MergedAsClaimed(a.run_data, Persisted.run_data, a'.run_data)
          /\ MergedAsClaimed(a.user_data, Persisted.user_data, a'.user_data)
          /\ MergedAsClaimed(a.task_data, Persisted.task_data, a'.task_data)]_vars

\* A loaded state in which run_data took x from the live side (the persisted
\* x differs) and y from the persisted side.
C2_Witness ==
    /\ last.op = "read_from_storage"
    /\ last.retRow.exists
    /\ Persisted.run_data = D(1, 1)
    /\ a.run_data = D(2, 1)
    /\ a.assistant_data = D(1, 1)

IntroCount(h) == Cardinality({i \in 1..Len(h) : h[i] = IntroMsg})

\* C3: when create_run is called twice in succession, the second call returns
\* the identifier the first returned, reads and upserts nothing, and the chat
\* history holds the introduction at most once.
C3_CreateRunIdempotent ==
    (last.op = "create_run" /\ prev.op = "create_run") =>
        /\ last.done
        /\ last.retId = prev.retId
        /\ last.reads = 0
        /\ last.upserts = 0
        /\ IntroCount(a.memory.chat_history) <= 1

\* Two create_run calls in a row on an assistant with storage whose first
\* call created the run and added the introduction.
C3_Witness ==
    /\ last.op = "create_run"
    /\ prev.op = "create_run"
    /\ a.storage
    /\ a.db_row.exists
    /\ IntroCount(a.memory.chat_history) = 1

\* C4: in a run over a task list the first task receives the caller's
\* message; a later task receives the text serialization of the preceding
\* task's output when that output is a schema object, never the object, and
\* the output itself when it is any other non-null value.
C4_TaskInputThreading ==
    last.op = "run" =>
        \A i \in 1..Len(last.inputs) :
            IF i = 1 THEN last.inputs[i] = last.message
            ELSE LET o == Tasks(a)[i - 1].output
                 IN  /\ o.kind = "model" =>
                            /\ last.inputs[i] = Str(o.text)
                            /\ last.inputs[i] # o
                     /\ o.kind \in {"str", "raw"} => last.inputs[i] = o

\* The second task of a run has received the serialization of the schema
\* object the first task produced.
C4_Witness ==
    /\ last.op = "run"
    /\ Len(last.inputs) >= 2
    /\ Tasks(a)[1].output.kind = "model"
    /\ last.inputs[2] = Str(<<"V">>)

RECURSIVE Concat(_)
Concat(cs) == IF cs = <<>> THEN <<>> ELSE Head(cs).text \o Concat(Tail(cs))

\* The task's streamed fragments concatenate to its batch result, a text.
Faithful(t) ==
    /\ t.response.kind = "str"
    /\ \A i \in 1..Len(t.frags) : t.frags[i].kind = "str"
    /\ Concat(t.frags) = t.response.text

\* The last two operations are completed runs of a single faithful task on
\* the same message, one streamed and one not.
BothModes ==
    /\ last.op = "run"
    /\ last.done
    /\ prev.op = "run"
    /\ last.ranStream # prev.ranStream
    /\ last.message = prev.message
    /\ Len(Tasks(a)) = 1
    /\ Faithful(Tasks(a)[1])

\* C5: for a single-task run whose task streams the text it returns in
\* batch, the chunks yielded in streaming mode concatenate to the string the
\* non-streaming run produces on the same inputs.
C5_StreamEqualsBatch == BothModes => last.text = prev.text

\* Both modes were run on a visible faithful task and produced its text.
C5_Witness ==
    /\ BothModes
    /\ Tasks(a)[1].show_output
    /\ last.text = <<"w", "u">>

\* The last operation is a run with an output model and parse_output.
ParsingRun ==
    /\ last.op = "run"
    /\ a.output_model # "None"
    /\ a.parse_output

\* C6: with an output model and parse_output, run executes the pipeline in
\* non-streaming mode whatever the stream argument, and when every parsing
\* attempt fails it raises nothing and returns the aggregated text as the
\* pipeline produced it.
C6_ParseFailureReturnsRawText ==
    ParsingRun =>
        /\ ~last.deferred
        /\ ~last.ranStream
        /\ ~last.parseOk => (~last.raised /\ last.done /\ last.retVal = Str(last.text))

\* A run asked to stream whose fenced text failed validation before and
\* after the fence was stripped, and that returned the text with the fence.
C6_Witness ==
    /\ ParsingRun
    /\ last.stream
    /\ a.output_model = "model"
    /\ ~last.parseOk
    /\ last.text = <<"f", "j", "n", "w", "n", "f">>
    /\ last.retVal = Str(last.text)

\* C7: when parsing succeeds with value v, the assistant's stored output is
\* v and run returns v, for every v including an empty mapping.
C7_ParsedValueReturned ==
    (ParsingRun /\ last.parseOk) =>
        /\ a.output = last.parsed
        /\ last.retVal = last.parsed

\* The step is a call of chat_raw on an assistant with a task list.
ChatRawWithTasks ==
    /\ gen.kind = "none"
    /\ last'.op = "chat_raw"
    /\ Len(a.tasks) > 0

\* C8: chat_raw on an assistant with a non-empty task list raises at the
\* call in both modes, before any storage read, change of the histories,
\* model call, upsert or monitoring event.
C8_ChatRawRejectsTasks ==
    [][ChatRawWithTasks =>
          /\ last'.raised
          /\ ~last'.deferred
          /\ last'.reads = 0
          /\ last'.calls = 0
          /\ last'.upserts = 0
          /\ last'.events = 0
          /\ a' = a
          /\ store' = store
          /\ gen' = gen]_vars

\* A streaming chat_raw call on an assistant with tasks has raised.
C8_Witness ==
    /\ last.op = "chat_raw"
    /\ last.stream
    /\ last.raised
    /\ Len(a.tasks) > 0
    /\ gen.kind = "none"

\* C9: write_to_storage with a storage adapter returns the persisted record
\* or fails with an error when the adapter returns none; it never returns
\* normally without a record and never clears the cached row on a failure.
C9_WriteReturnsRecordOrFails ==
    [][(last'.op = "write_to_storage" /\ a.storage) =>
          /\ last'.raised \/ last'.retRow.exists
          /\ ~last'.adapterOk => (last'.raised /\ a'.db_row = a.db_row)]_vars

\* C10: with no language model configured, chat_raw in either mode and
\* generate_name raise at the call itself, before any storage read, model
\* call or upsert, and never at a later pull.
C10_NoLLMRaisesAtCall ==
    (last.op \in {"chat_raw", "generate_name"} /\ a.llm.isNone) =>
        /\ last.raised
        /\ ~last.deferred
        /\ ~last.pullRaised
        /\ last.reads = 0
        /\ last.calls = 0
        /\ last.upserts = 0

\* The positions of a kind of event in the trace of a call.
Pos(tr, tok) == {i \in 1..Len(tr) : tr[i] = tok}

\* Every event of the first kind comes before every event of the second.
Before(tr, t1, t2) == \A i \in Pos(tr, t1), j \in Pos(tr, t2) : i < j

\* The last call is a run with a storage adapter that ran to completion.
StoredRunDone ==
    /\ last.op = "run"
    /\ last.done
    /\ a.storage

\* The part of C11 that does not depend on the mode: one read before the
\* first task, one upsert after the last task, and the upsert before the
\* monitoring event and the update of the stored output.
ReadTasksUpsert(tr) ==
    /\ Cardinality(Pos(tr, "read")) = 1
    /\ Before(tr, "read", "task")
    /\ Cardinality(Pos(tr, "upsert")) = 1
    /\ Before(tr, "task", "upsert")
    /\ Cardinality(Pos(tr, "event")) = 1
    /\ Before(tr, "upsert", "event")
    /\ Before(tr, "upsert", "output")

\* C11 as stated: in every completed run with storage there is exactly one
\* storage read before the first task and exactly one upsert after the last
\* task, and the upsert precedes the monitoring event, the update of the
\* stored output and the final yielded chunk.
C11_UpsertBeforeFinalChunk ==
    StoredRunDone =>
        /\ ReadTasksUpsert(last.trace)
        /\ \A u \in Pos(last.trace, "upsert"), y \in Pos(last.trace, "yield") :
               (\A z \in Pos(last.trace, "yield") : z <= y) => u < y

\* C11 amended: in every completed run with storage there is exactly one
\* storage read before the first task and exactly one upsert after the last
\* task, and the upsert precedes the monitoring event and the update of the
\* stored output; a non-streaming run yields its only chunk after the
\* upsert, a streamed run yields every chunk before it.
C11_ReadTasksUpsertOrder ==
    StoredRunDone =>
        /\ ReadTasksUpsert(last.trace)
        /\ IF last.ranStream
           THEN Before(last.trace, "yield", "upsert")
           ELSE /\ Before(last.trace, "upsert", "yield")
                /\ Cardinality(Pos(last.trace, "yield")) = 1

\* A streamed run over two tasks that loaded a persisted record, yielded
\* chunks and then persisted.
C11_Witness ==
    /\ StoredRunDone
    /\ last.ranStream
    /\ Len(Tasks(a)) = 2
    /\ Cardinality(Pos(last.trace, "yield")) >= 2
    /\ a.memory.chat_history = <<UserMsg>>
    /\ Persisted = to_database_row(a)

\* The record persisted under the assistant's run id belongs to another user.
ForeignRecord ==
    /\ a.storage
    /\ a.user_id # "None"
    /\ Persisted.exists
    /\ Persisted.user_id # a.user_id

\* C14: while the record persisted under the assistant's run id belongs to
\* another user, no run, rename, rename_run or auto_rename_run of the
\* assistant changes that record.
C14_ForeignRecordUntouched ==
    [][(ForeignRecord /\ last'.op \in {"run", "chat_raw", "rename", "rename_run",
                                        "auto_rename_run"})
          => store' = store]_vars

\* C18: a streamed run whose sequence has not been pulled to its end has
\* issued no upsert and no monitoring event, and none of its steps changes
\* the persisted record or the stored output.
C18_AbandonedStreamPersistsNothing ==
    [][(last'.op = "run" /\ last'.ranStream /\ ~last'.done) =>
          /\ last'.upserts = 0
          /\ last'.events = 0
          /\ store' = store
          /\ a'.output = a.output]_vars

\* A streamed run with storage was dropped after its first chunk, with a
\* record persisted under the run id.
C18_Witness ==
    /\ last.op = "run"
    /\ last.ranStream
    /\ ~last.done
    /\ gen.kind = "none"
    /\ Len(last.yielded) = 1
    /\ last.reads = 1
    /\ a.storage
    /\ Persisted.exists

\* C13: after a run completes, in either mode, the assistant's stored output
\* and the llm_response of the monitoring event equal the concatenation of
\* the text the run emitted to the caller.
C13_OutputEqualsEmitted ==
    (last.op = "run" /\ last.done) =>
        /\ a.output = Str(last.text)
        /\ last.llm_response = last.text

\* Some task of the run holds a structured output that does not serialize.
SomeDumpFails == \E i \in 1..Len(Tasks(a)) : ~Tasks(a)[i].output.dumps

\* C15: a run over tasks of which one holds a structured output that fails
\* to serialize is not aborted, neither at the call nor at a later pull, and
\* when it completes every task has been given its input.
C15_SerializationFailureTolerated ==
    (last.op = "run" /\ SomeDumpFails) =>
        /\ ~last.raised
        /\ ~last.pullRaised
        /\ last.done => Len(last.inputs) = Len(Tasks(a))

\* The text of a task: its result normalized to text; a task that returns
\* nothing (None, or an empty value) or whose result does not serialize has
\* no text.
TaskText(t) ==
    IF Truthy(t.response) /\ t.response.dumps THEN t.response.text ELSE <<>>

RECURSIVE Aggregate(_, _)
\* The aggregate C16 describes, from task k on.
Aggregate(ts, k) ==
    IF k > Len(ts) THEN <<>>
    ELSE (IF k > 1 /\ ts[k - 1].show_output THEN Sep ELSE <<>>)
         \o (IF ts[k].show_output THEN TaskText(ts[k]) ELSE <<>>)
         \o Aggregate(ts, k + 1)

\* The input the output o of the preceding task becomes.
PassedOn(o, message) ==
    CASE o.kind = "none" -> message
      [] o.kind = "model" -> Str(o.text)
      [] OTHER -> o

\* C16: the text of a completed non-streaming run is the concatenation in
\* task order of a separator before task k > 1 exactly when task k-1 is
\* visible and the text of task k exactly when task k is visible; it is the
\* only chunk, and every task, hidden or not, passes its output on as the
\* input of the next.
C16_AggregateOfVisibleTasks ==
    (last.op = "run" /\ ~last.ranStream /\ last.done) =>
        /\ last.text = Aggregate(Tasks(a), 1)
        /\ last.yielded = <<last.text>>
        /\ Len(last.inputs) = Len(Tasks(a))
        /\ \A k \in 2..Len(Tasks(a)) :
               last.inputs[k] = PassedOn(Tasks(a)[k - 1].output, last.message)

\* A non-streaming run over a hidden and a visible task: no separator, only
\* the second task's text, and the hidden task's output as its input.
C16_Witness ==
    /\ last.op = "run"
    /\ ~last.ranStream
    /\ last.done
    /\ Len(Tasks(a)) = 2
    /\ ~Tasks(a)[1].show_output
    /\ Tasks(a)[1].output = Model(<<"V">>, TRUE)
    /\ Tasks(a)[2].show_output
    /\ last.text = <<"w", "u">>
    /\ last.inputs[2] = Str(<<"V">>)

\* C12: generate_name accepts a response exactly when it has at most 15
\* words and then returns it without double quotes and surrounding spaces;
\* a longer response leads to exactly one further model call with the same
\* prompt, whatever the number of calls before it, and neither changes the
\* assistant nor the storage.
C12_NameRetry ==
    [][gen.kind = "name" =>
          /\ last'.calls = last.calls + 1
          /\ a' = a
          /\ store' = store
          /\ IF WordCount(last'.text) <= 15
             THEN /\ gen'.kind = "none"
                  /\ last'.done
                  /\ ~last'.raised
                  /\ last'.retVal = Str(StripSpaces(Unquote(last'.text)))
             ELSE /\ gen'.kind = "name"
                  /\ ~last'.done
                  /\ last'.inputs = last.inputs]_vars

\* generate_name returned a quoted name, stripped, after MaxRetries
\* responses that were too long.
C12_Witness ==
    /\ last.op = "generate_name"
    /\ last.done
    /\ last.calls = MaxRetries + 1
    /\ last.text = <<"q", "w", "s", "u", "q">>
    /\ last.retVal = Str(<<"w", "s", "u">>)

\* The last call is a chat_raw that ran to completion.
ChatRawDone ==
    /\ last.op = "chat_raw"
    /\ last.done

\* The user message the last chat_raw was given, "None" if none.
GivenUserMessage == last.message.text[1]

\* The number of events of a kind in the trace of the last call.
Count(tok) == Cardinality(Pos(last.trace, tok))

IsSuffix(x, y) == Len(x) <= Len(y) /\ SubSeq(y, Len(y) - Len(x) + 1, Len(y)) = x

\* C17: a chat_raw that completes has performed, in this order, the storage
\* read, the append of the user message when one is given, the model call,
\* the recording of the caller's messages in the raw history, one attempt to
\* append the last message to the chat history, which may fail, and one
\* upsert; the record a healthy adapter persisted holds the user message and
\* every message of the caller's list.
C17_ChatRawOrder ==
    ChatRawDone =>
        /\ Count("read") = (IF a.storage THEN 1 ELSE 0)
        /\ Count("user") = (IF GivenUserMessage # "None" THEN 1 ELSE 0)
        /\ Count("call") = 1
        /\ Count("llm_messages") = 1
        /\ Count("chat") + Count("chat_failed") = 1
        /\ Count("upsert") = (IF a.storage THEN 1 ELSE 0)
        /\ Before(last.trace, "read", "user")
        /\ Before(last.trace, "read", "call")
        /\ Before(last.trace, "user", "call")
        /\ Before(last.trace, "call", "llm_messages")
        /\ Before(last.trace, "llm_messages", "chat")
        /\ Before(last.trace, "llm_messages", "chat_failed")
        /\ Before(last.trace, "chat", "upsert")
        /\ Before(last.trace, "chat_failed", "upsert")
        /\ (a.storage /\ last.adapterOk) =>
              /\ Persisted.exists
              /\ GivenUserMessage # "None" =>
                    \E i \in 1..Len(Persisted.memory.mem.chat_history) :
                        Persisted.memory.mem.chat_history[i] = Msg("user", GivenUserMessage)
              /\ Len(last.inputs) > 0
              /\ IsSuffix(last.inputs, Persisted.memory.mem.llm_messages)

\* A streamed chat_raw with a user message and storage completed although
\* the response was not accepted by the chat history, and its record holds
\* the caller's system message.
C17_Witness ==
    /\ ChatRawDone
    /\ last.ranStream
    /\ a.storage
    /\ last.adapterOk
    /\ GivenUserMessage = "q"
    /\ Count("chat_failed") = 1
    /\ Count("yield") = 1
    /\ Persisted.memory.mem.llm_messages = <<SystemMsg, ResponseMsg>>
    /\ Persisted.memory.mem.chat_history = <<UserMsg>>

\* The step is an upsert, by a run of the instance at hand, that the adapter
\* persisted.
RunUpserts ==
    /\ other' = other
    /\ last'.op = "run"
    /\ last'.upserts = 1
    /\ last.op = "none" \/ last.upserts = 0
    /\ last'.adapterOk

\* Both instances ran to completion and their upserts were persisted.
BothFinished ==
    /\ other.exists
    /\ last.op = "run" /\ last.done /\ last.adapterOk
    /\ other.last.op = "run" /\ other.last.done /\ other.last.adapterOk

\* C19: with two instances on one run id, every upsert replaces the
\* persisted record by the serialized live state of the instance that
\* issued it, whatever the record held, and nothing else changes the record;
\* so after both finish the record is the serialized state of one of them.
C19_LastWriterWins ==
    [][/\ RunUpserts => Persisted' = to_database_row(a')
       /\ store' # store => RunUpserts
       /\ BothFinished' =>
             \/ Persisted' = to_database_row(a')
             \/ Persisted' = to_database_row(other'.a)]_vars

\* Both instances finished and persisted, and the record holds the message
\* of one instance only: the message the other added and persisted is lost.
C19_Witness ==
    /\ BothFinished
    /\ a.memory.chat_history = <<Msg("assistant", "ans2")>>
    /\ other.a.memory.chat_history = <<Msg("assistant", "ans1")>>
    /\ Persisted.memory.mem.chat_history = <<Msg("assistant", "ans2")>>
    /\ last.ranStream
    /\ other.last.ranStream

====
